---- MODULE Spec2Model ----
(***************************************************************************)
(* Process supervision of plumbum: the timeout thread, run_proc and        *)
(* iter_lines of plumbum/commands/processes.py, and the ParamikoPopen       *)
(* handle with its _iter_lines of plumbum/machines/paramiko_machine.py.     *)
(* One handle (local or remote) is driven by one calling thread, next to    *)
(* the process it stands for and the background timeout thread.             *)
(***************************************************************************)
EXTENDS Integers, Sequences, FiniteSets, TLC

(* ------------------------------ bounds -------------------------------- *)
\* the clock runs from 0 to MaxTime
MaxTime == 1
\* lines the process may write, over both of its output streams
MaxLines == 2
\* lines a stream's transport holds before the writer blocks
PipeCap == 1
\* lines pushed through one accumulator in SpecAcc, above the retention bound
MaxChatty == 102
\* registrations made with the timeout thread in SpecSup
MaxRegs == 2
\* lines a scripted process writes in FairComm and FairFeed
MaxPlan == 3
\* lines of stdin_file in FairFeed
MaxInput == 2

(* ------------------------- program constants -------------------------- *)
\* len(buff) > 100
BufCap == 100
\* "<...previous lines omitted...>"
ElisionMarker == -1
\* the exit status of a process ended by proc.kill()
SigKillCode == -9

(* ------------------------------ values -------------------------------- *)
None == <<>>
Some(x) == <<x>>
Streams == {0, 1}
ExitCodes == {0, 2}
\* the line an end-of-stream readline returns: b""
EmptyLine == 0
\* the handle the model follows
H == 1
\* the handles of the pool the timeout thread serves, and their backends
Handles == {1, 2}
KindOf(h) == IF h = 1 THEN "local" ELSE "remote"
\* the (SystemExit, 0) message of _shutdown_bg_threads
Sentinel == <<0, 0>>

\* retcode: None, a bare value, or a container of values
ExpectedSpecs ==
  { [tag |-> "absent", val |-> 0, set |-> {}],
    [tag |-> "value", val |-> 0, set |-> {}],
    [tag |-> "set", val |-> 0, set |-> {2, 3}] }
Timeouts == {None, Some(0), Some(1)}
LineTimeouts == {None, Some(0), Some(1)}

VARIABLES
  now,          \* time.time()
  kind,         \* "local" | "remote": the backend of the handle
  alive,        \* the process is running
  exitStatus,   \* the exit status the OS / the channel holds, once dead
  wrote,        \* wrote[t]: lines the process has written to stream t
  arrival,      \* history: the streams written to, in order of writing
  pipe,         \* pipe[t]: lines written to stream t and not yet read
  returncode,   \* proc.returncode
  timedOut,     \* proc._timed_out
  chan,         \* the remote channel: shutdown_read, shutdown_write, close
  files,        \* proc.stdin / stdout / stderr closed
  closeLog,     \* history: the outcome of every proc.close() call
  queue,        \* _timeout_queue
  waiting,      \* the MinHeap of _timeout_thread_func
  shuttingDown, \* _shutting_down
  supPc,        \* where the timeout thread is
  supNow,       \* its local `now` (0 outside the sweep)
  pc,           \* where the calling thread is
  mode,         \* "none" | "run" | "iter"
  retcode,      \* the expected-code argument
  timeout,      \* the timeout argument
  lineTimeout,  \* the line_timeout argument
  closeOnAbort, \* the close_on_abort argument
  infile,       \* communicate: pending lines of stdin_file, None once closed
  commI,        \* communicate: i
  sources,      \* communicate: the streams still open
  coll,         \* communicate: coll[t], the lines collected from stream t
  buffers,      \* iter_lines: buffers[t]
  yielded,      \* history: the records iter_lines yielded, with their stream
  readyList,    \* _iter_lines: the rest of the selector's ready list
  selStart,     \* _iter_lines: when the current select() began (0 outside it)
  lastWait,     \* history: how the last select() ended
  atYield,      \* the generator is suspended at the yield of iter_lines
  outcome,      \* what the call gave: a result or the exception raised
  result,       \* the tuple _check_process returned
  hooks,        \* history: the hooks invoked, in order
  procs,        \* the handles of the pool: alive, _timed_out, signalled
  cur,          \* the timeout thread's `proc` while it deals with one (else 0)
  registered,   \* history: the (proc, deadline) messages put, in order
  fired,        \* history: the entries the sweep popped, in order
  plan          \* the streams a scripted process has yet to write to

vars == << now, kind, alive, exitStatus, wrote, arrival, pipe,
           returncode, timedOut, chan, files, closeLog, queue, waiting,
           shuttingDown, supPc, supNow, pc, mode, retcode, timeout,
           lineTimeout, closeOnAbort, infile, commI, sources, coll, buffers,
           yielded, readyList, selStart, lastWait, atYield, outcome, result,
           hooks, procs, cur, registered, fired, plan >>

procVars == << alive, exitStatus, wrote, arrival, pipe >>
handleVars == << returncode, timedOut, chan, files, closeLog >>
supVars == << queue, waiting, shuttingDown, supPc, supNow >>
argVars == << mode, retcode, timeout, lineTimeout, closeOnAbort >>
commVars == << infile, commI, sources, coll >>
iterVars == << buffers, yielded, readyList, selStart, lastWait, atYield >>
endVars == << outcome, result, hooks >>
fixedVars == << kind >>
poolVars == << procs, cur, registered, fired >>

OpenChan == [rd |-> FALSE, wr |-> FALSE, closed |-> FALSE]
OpenFiles == [stdin |-> FALSE, stdout |-> FALSE, stderr |-> FALSE]

InitHandle ==
  /\ now = 0
  /\ kind \in {"local", "remote"}
  /\ alive = TRUE
  /\ exitStatus = None
  /\ wrote = [t \in Streams |-> 0]
  /\ arrival = <<>>
  /\ pipe = [t \in Streams |-> <<>>]
  /\ returncode = None
  /\ timedOut = FALSE
  /\ chan = OpenChan
  /\ files = OpenFiles
  /\ closeLog = <<>>
  /\ queue = <<>>
  /\ waiting = <<>>
  /\ shuttingDown = FALSE
  /\ supPc = "get"
  /\ supNow = 0
  /\ pc = "init"
  /\ mode = "none"
  /\ retcode = [tag |-> "absent", val |-> 0, set |-> {}]
  /\ timeout = None
  /\ lineTimeout = None
  /\ closeOnAbort = TRUE
  /\ infile = None
  /\ commI = 0
  /\ sources = <<>>
  /\ coll = [t \in Streams |-> <<>>]
  /\ buffers = [t \in Streams |-> <<>>]
  /\ yielded = <<>>
  /\ readyList = <<>>
  /\ selStart = 0
  /\ lastWait = "none"
  /\ atYield = FALSE
  /\ outcome = "none"
  /\ result = None
  /\ hooks = <<>>

\* the pool: every process running, nothing registered
InitPool ==
  /\ procs = [h \in Handles |-> [alive |-> TRUE, timedOut |-> FALSE,
                                   signalled |-> FALSE]]
  /\ cur = 0
  /\ registered = <<>>
  /\ fired = <<>>

Init ==
  /\ InitHandle
  /\ InitPool
  /\ plan = <<>>

(* --------------------------- the process ------------------------------ *)
\* the process writes its next line to stream t; a full transport blocks it,
\* and a read side that was closed takes no more
ProcWrite(t) ==
  /\ alive
  /\ ~chan.closed
  /\ ~(IF t = 0 THEN files.stdout ELSE files.stderr)
  /\ wrote[0] + wrote[1] < MaxLines
  /\ Len(pipe[t]) < PipeCap
  /\ wrote' = [wrote EXCEPT ![t] = @ + 1]
  /\ pipe' = [pipe EXCEPT ![t] = Append(@, wrote[t] + 1)]
  /\ arrival' = Append(arrival, t)
  /\ UNCHANGED << alive, exitStatus, now, handleVars, supVars, pc, argVars,
                  commVars, iterVars, endVars, fixedVars, poolVars, plan >>

\* the process ends by itself with exit code c
ProcExit(c) ==
  /\ alive
  /\ alive' = FALSE
  /\ exitStatus' = Some(c)
  /\ UNCHANGED << wrote, arrival, pipe, now, handleVars, supVars, pc, argVars,
                  commVars, iterVars, endVars, fixedVars, poolVars, plan >>

Tick ==
  /\ now < MaxTime
  /\ now' = now + 1
  /\ UNCHANGED << procVars, handleVars, supVars, pc, argVars, commVars,
                  iterVars, endVars, fixedVars, poolVars, plan >>

(* ---------------------------- the handle ------------------------------ *)
\* ParamikoPopen defines close; a local Popen has no such method
hasClose == kind = "remote"

\* the three calls of ParamikoPopen.close on the channel; each sets its mark
\* on the channel and a channel already marked accepts it again
shutdown_read(c) == [c EXCEPT !.rd = TRUE]
shutdown_write(c) == [c EXCEPT !.wr = TRUE]
channel_close(c) == [c EXCEPT !.closed = TRUE]

\* a close that refuses a channel already closed
close_once(c) ==
  [chan |-> channel_close(shutdown_write(shutdown_read(c))), err |-> c.closed]
\* ParamikoPopen.close: channel.shutdown_read(), shutdown_write(), close();
\* the channel it leaves and whether it raised
close(c) ==
  [chan |-> channel_close(shutdown_write(shutdown_read(c))), err |-> FALSE]

\* ParamikoPopen.kill raises OSError; Popen.kill signals the process
killRaises == kind = "remote"

\* the read side of stream t is at end of stream: the writer is gone
AtEof(t) == pipe[t] = <<>> /\ ~alive

(* ------------------------- the Result Classifier ---------------------- *)
\* proc.verify: the _timed_out flag first, then the exit code against retcode
verify(to, exp, rc) ==
  IF to THEN "ProcessTimedOut"
  ELSE IF exp.tag = "value" /\ rc # Some(exp.val) THEN "ProcessExecutionError"
  ELSE IF exp.tag = "set" /\ (rc = None \/ rc[1] \notin exp.set)
         THEN "ProcessExecutionError"
  ELSE "ok"

\* a classifier that runs on_fail and then goes on as if verify had passed
check_process_swallow(to, exp, rc, out, err) ==
  LET v == verify(to, exp, rc) IN
  [outcome |-> "ok", hook |-> IF v # "ok" THEN "on_fail" ELSE "on_done",
   result |-> Some(<<rc, out, err>>)]
\* a classifier that calls on_done whether verify passed or not
check_process_doneAlways(to, exp, rc, out, err) ==
  LET v == verify(to, exp, rc) IN
  [outcome |-> v, hook |-> "on_done",
   result |-> IF v = "ProcessTimedOut" THEN None ELSE Some(<<rc, out, err>>)]
\* _check_process: verify, then on_fail and the exception again, or on_done
\* and (proc.returncode, stdout, stderr)
check_process(to, exp, rc, out, err) ==
  LET v == verify(to, exp, rc) IN
  IF v # "ok"
    THEN [outcome |-> v, hook |-> "on_fail",
          result |-> IF v = "ProcessExecutionError" THEN Some(<<rc, out, err>>)
                     ELSE None]
    ELSE [outcome |-> "ok", hook |-> "on_done", result |-> Some(<<rc, out, err>>)]

(* ------------------------- the timeout thread ------------------------- *)
\* tuples compare by their first component, then by their second
TupleLess(a, b) == a[1] < b[1] \/ (a[1] = b[1] /\ a[2] < b[2])

\* (ttk, proc) tuples of equal deadline and different handles: `<` goes on to
\* compare the handles, which have no order (TypeError) unless the
\* interpreter falls back on an arbitrary fixed one, as TupleLess does
Unordered(a, b) == a[1] = b[1] /\ a[2] # b[2]

\* heapq's _siftdown from the root: item moves up from pos past every
\* parent it is less than; err tells that a comparison was unordered
RECURSIVE siftdown(_, _, _, _)
siftdown(heap, item, pos, err) ==
  IF pos > 1
    THEN LET parent == heap[pos \div 2]
             e == err \/ Unordered(item, parent)
         IN IF TupleLess(item, parent)
              THEN siftdown([heap EXCEPT ![pos] = parent], item, pos \div 2, e)
              ELSE [heap |-> [heap EXCEPT ![pos] = item], err |-> e]
    ELSE [heap |-> [heap EXCEPT ![pos] = item], err |-> err]

\* heapq's _siftup: the smaller child moves up until item is at a leaf,
\* then _siftdown brings item back up
RECURSIVE siftup(_, _, _, _)
siftup(heap, item, pos, err) ==
  LET child == 2 * pos
      right == child + 1
  IN IF child <= Len(heap)
       THEN LET both == right <= Len(heap)
                c == IF both /\ ~TupleLess(heap[child], heap[right])
                       THEN right ELSE child
                e == err \/ (both /\ Unordered(heap[child], heap[right]))
            IN siftup([heap EXCEPT ![pos] = heap[c]], item, c, e)
       ELSE siftdown(heap, item, pos, err)

\* heapq.heappush and heapq.heappop on the list of the MinHeap: the heap
\* they leave and whether a comparison of theirs was unordered
heappush(h, item) == siftdown(Append(h, item), item, Len(h) + 1, FALSE)
heappop(h) ==
  IF Len(h) <= 1 THEN [heap |-> <<>>, err |-> FALSE]
  ELSE siftup(SubSeq(h, 1, Len(h) - 1), h[Len(h)], 1, FALSE)

\* MinHeap.push, MinHeap.pop, MinHeap.peek
push(h, item) == heappush(h, item).heap
pop(h) == heappop(h).heap
peek(h) == Head(h)

\* a registration that tests `if timeout:` and so takes 0 for no timeout
register_if_truthy(q, h, t) ==
  IF t = None \/ t[1] = 0 THEN q ELSE Append(q, <<h, now + t[1]>>)
\* _register_proc_timeout: nothing for None, else (proc, time.time() + timeout)
register_proc_timeout(q, h, t) ==
  IF t = None THEN q ELSE Append(q, <<h, now + t[1]>>)
register(q, t) == register_proc_timeout(q, H, t)

\* while not _shutting_down
SupStop ==
  /\ supPc = "get"
  /\ shuttingDown
  /\ supPc' = "exited"
  /\ UNCHANGED << queue, waiting, shuttingDown, supNow, now, procVars,
                  handleVars, pc, argVars, commVars, iterVars, endVars,
                  fixedVars, poolVars, plan >>

\* _timeout_queue.get returned a message: the sentinel ends the thread,
\* a registration is pushed and the sweep begins
SupGetItem ==
  /\ supPc = "get"
  /\ queue # <<>>
  /\ queue' = Tail(queue)
  /\ IF Head(queue) = Sentinel
       THEN supPc' = "exited" /\ UNCHANGED << waiting, supNow >>
       ELSE /\ waiting' = push(waiting, <<Head(queue)[2], Head(queue)[1]>>)
            /\ supPc' = "sweep"
            /\ supNow' = now
  /\ UNCHANGED << shuttingDown, now, procVars, handleVars, pc, argVars,
                  commVars, iterVars, endVars, fixedVars, poolVars, plan >>

\* _timeout_queue.get raised QueueEmpty: the soonest deadline has come
SupGetEmpty ==
  /\ supPc = "get"
  /\ queue = <<>>
  /\ waiting # <<>>
  /\ now >= peek(waiting)[1]
  /\ supPc' = "sweep"
  /\ supNow' = now
  /\ UNCHANGED << queue, waiting, shuttingDown, now, procVars, handleVars, pc,
                  argVars, commVars, iterVars, endVars, fixedVars, poolVars, plan >>

\* a sweep without the `if ttk > now: break` test
SupSweep_eager ==
  /\ supPc = "sweep"
  /\ IF waiting = <<>>
       THEN /\ supPc' = "get"
            /\ supNow' = 0
            /\ UNCHANGED << waiting, returncode >>
       ELSE /\ waiting' = pop(waiting)
            /\ UNCHANGED supNow
            /\ IF kind = "local"
                 THEN IF alive
                        THEN supPc' = "kill" /\ UNCHANGED returncode
                        ELSE /\ supPc' = "sweep"
                             /\ returncode' = IF returncode = None THEN exitStatus
                                              ELSE returncode
                 ELSE /\ UNCHANGED returncode
                      /\ supPc' = IF returncode # None THEN "sweep"
                                  ELSE IF ~alive THEN "wait" ELSE "kill"
  /\ UNCHANGED << queue, shuttingDown, now, procVars, timedOut, chan, files,
                  closeLog, pc, argVars, commVars, iterVars, endVars,
                  fixedVars, poolVars, plan >>
\* one round of `while waiting`: break (the local `now` is dead from there
\* on), or pop the entry and poll its process
SupSweep ==
  /\ supPc = "sweep"
  /\ IF waiting = <<>> \/ peek(waiting)[1] > supNow
       THEN /\ supPc' = "get"
            /\ supNow' = 0
            /\ UNCHANGED << waiting, returncode >>
       ELSE /\ waiting' = pop(waiting)
            /\ UNCHANGED supNow
            /\ IF kind = "local"
                 THEN IF alive
                        THEN supPc' = "kill" /\ UNCHANGED returncode
                        ELSE /\ supPc' = "sweep"
                             /\ returncode' = IF returncode = None THEN exitStatus
                                              ELSE returncode
                 ELSE /\ UNCHANGED returncode
                      /\ supPc' = IF returncode # None THEN "sweep"
                                  ELSE IF ~alive THEN "wait" ELSE "kill"
  /\ UNCHANGED << queue, shuttingDown, now, procVars, timedOut, chan, files,
                  closeLog, pc, argVars, commVars, iterVars, endVars,
                  fixedVars, poolVars, plan >>

\* ParamikoPopen.wait, entered from poll with returncode still None
SupWait ==
  /\ supPc = "wait"
  /\ returncode' = exitStatus
  /\ chan' = close(chan).chan
  /\ closeLog' = Append(closeLog, close(chan))
  /\ supPc' = "sweep"
  /\ UNCHANGED << queue, waiting, shuttingDown, supNow, now, procVars,
                  timedOut, files, pc, argVars, commVars, iterVars, endVars,
                  fixedVars, poolVars, plan >>

\* proc.kill(): OSError (swallowed), or the process is signalled; a process
\* that ended meanwhile is signalled without error or gives OSError
SupKill ==
  /\ supPc = "kill"
  /\ IF killRaises
       THEN supPc' = "sweep" /\ UNCHANGED << alive, exitStatus >>
       ELSE IF alive
              THEN /\ alive' = FALSE
                   /\ exitStatus' = Some(SigKillCode)
                   /\ supPc' = "mark"
              ELSE /\ supPc' \in {"mark", "sweep"}
                   /\ UNCHANGED << alive, exitStatus >>
  /\ UNCHANGED << queue, waiting, shuttingDown, supNow, now, wrote, arrival,
                  pipe, handleVars, pc, argVars, commVars, iterVars, endVars,
                  fixedVars, poolVars, plan >>

\* proc._timed_out = True
SupMark ==
  /\ supPc = "mark"
  /\ timedOut' = TRUE
  /\ supPc' = "sweep"
  /\ UNCHANGED << queue, waiting, shuttingDown, supNow, now, procVars,
                  returncode, chan, files, closeLog, pc, argVars, commVars,
                  iterVars, endVars, fixedVars, poolVars, plan >>

\* _shutdown_bg_threads, run at interpreter exit: the calling thread has not
\* begun or has ended
Shutdown ==
  /\ ~shuttingDown
  /\ pc \in {"init", "done"}
  /\ shuttingDown' = TRUE
  /\ queue' = Append(queue, Sentinel)
  /\ UNCHANGED << waiting, supPc, supNow, now, procVars, handleVars, pc,
                  argVars, commVars, iterVars, endVars, fixedVars, poolVars, plan >>

(* ------------------- the timeout thread and a pool -------------------- *)
\* what the calls on the single handle keep, left alone by the pool
callVars == << procVars, handleVars, pc, argVars, commVars, iterVars, endVars,
              fixedVars, plan >>

\* _register_proc_timeout(proc, timeout) for a handle of the pool, at any time
RegisterDeadline(h, t) ==
  /\ Len(registered) < MaxRegs
  /\ queue' = register_proc_timeout(queue, h, t)
  /\ registered' = IF t = None THEN registered
                   ELSE Append(registered, <<h, now + t[1]>>)
  /\ UNCHANGED << waiting, shuttingDown, supPc, supNow, now, procs, cur, fired,
                  callVars >>

\* a process of the pool ends by itself
PoolExit(h) ==
  /\ procs[h].alive
  /\ procs' = [procs EXCEPT ![h].alive = FALSE]
  /\ UNCHANGED << supVars, now, cur, registered, fired, callVars >>

\* a get without the `if proc is SystemExit: return` test: the sentinel is
\* pushed like a registration
PoolGetItem_noSentinel ==
  /\ supPc = "get"
  /\ queue # <<>>
  /\ queue' = Tail(queue)
  /\ LET r == heappush(waiting, <<Head(queue)[2], Head(queue)[1]>>)
     IN \/ /\ r.err
           /\ supPc' = "crashed"
           /\ UNCHANGED << waiting, supNow >>
        \/ /\ waiting' = r.heap
           /\ supPc' = "sweep"
           /\ supNow' = now
  /\ UNCHANGED << shuttingDown, now, poolVars, callVars >>
\* _timeout_queue.get returned a message: the sentinel ends the thread; a
\* registration is pushed, and an unordered comparison in the push either
\* raises TypeError, which ends the thread, or is settled by the fallback
PoolGetItem ==
  /\ supPc = "get"
  /\ queue # <<>>
  /\ queue' = Tail(queue)
  /\ IF Head(queue) = Sentinel
       THEN supPc' = "exited" /\ UNCHANGED << waiting, supNow >>
       ELSE LET r == heappush(waiting, <<Head(queue)[2], Head(queue)[1]>>)
            IN \/ /\ r.err
                  /\ supPc' = "crashed"
                  /\ UNCHANGED << waiting, supNow >>
               \/ /\ waiting' = r.heap
                  /\ supPc' = "sweep"
                  /\ supNow' = now
  /\ UNCHANGED << shuttingDown, now, poolVars, callVars >>

\* one round of `while waiting`: break, or pop the entry (TypeError as in the
\* push) and poll its process
PoolSweep ==
  /\ supPc = "sweep"
  /\ IF waiting = <<>> \/ peek(waiting)[1] > supNow
       THEN /\ supPc' = "get"
            /\ supNow' = 0
            /\ UNCHANGED << waiting, cur, fired >>
       ELSE LET r == heappop(waiting)
                h == peek(waiting)[2]
                entry == [ttk |-> peek(waiting)[1], proc |-> h,
                          kill |-> "none"]
            IN \/ /\ r.err
                  /\ supPc' = "crashed"
                  /\ supNow' = 0
                  /\ UNCHANGED << waiting, cur, fired >>
               \/ /\ waiting' = r.heap
                  /\ fired' = Append(fired, entry)
                  /\ UNCHANGED supNow
                  /\ IF procs[h].alive
                       THEN supPc' = "kill" /\ cur' = h
                       ELSE supPc' = "sweep" /\ cur' = 0
  /\ UNCHANGED << queue, shuttingDown, now, procs, registered, callVars >>

\* proc.kill(): OSError (swallowed) from a remote handle; a local process is
\* signalled, and one that ended meanwhile is signalled without error or
\* gives OSError
PoolKill ==
  /\ supPc = "kill"
  /\ LET running == procs[cur].alive
         log(how) == [fired EXCEPT ![Len(fired)].kill = how]
     IN IF KindOf(cur) = "remote"
          THEN /\ supPc' = "sweep"
               /\ cur' = 0
               /\ fired' = log(IF running THEN "raised" ELSE "raised late")
               /\ UNCHANGED procs
          ELSE IF running
                 THEN /\ procs' = [procs EXCEPT ![cur].alive = FALSE,
                                                ![cur].signalled = TRUE]
                      /\ supPc' = "mark"
                      /\ fired' = log("done")
                      /\ UNCHANGED cur
                 ELSE \/ /\ supPc' = "mark"
                         /\ fired' = log("done late")
                         /\ UNCHANGED << cur, procs >>
                      \/ /\ supPc' = "sweep"
                         /\ cur' = 0
                         /\ fired' = log("raised late")
                         /\ UNCHANGED procs
  /\ UNCHANGED << queue, waiting, shuttingDown, supNow, now, registered,
                  callVars >>

\* proc._timed_out = True
PoolMark ==
  /\ supPc = "mark"
  /\ procs' = [procs EXCEPT ![cur].timedOut = TRUE]
  /\ cur' = 0
  /\ supPc' = "sweep"
  /\ UNCHANGED << supNow, queue, waiting, shuttingDown, now, registered,
                  fired, callVars >>

(* ------------------------------ run_proc ------------------------------ *)
\* run_proc up to proc.communicate(); inf is the handle's stdin_file. The
\* retcode argument is read by the classifier alone and is drawn there.
CallRun(t, inf) ==
  /\ pc = "init"
  /\ kind = "local" => inf = None
  /\ mode' = "run"
  /\ timeout' = t
  /\ queue' = register(queue, t)
  /\ infile' = inf
  /\ sources' = <<0, 1>>
  /\ commI' = 0
  /\ pc' = "comm"
  /\ UNCHANGED << retcode, lineTimeout, closeOnAbort, coll, waiting,
                  shuttingDown, supPc, supNow, now, procVars, handleVars,
                  iterVars, endVars, fixedVars, poolVars, plan >>

\* ParamikoPopen.communicate, the input half of one round
CommIn ==
  /\ pc = "comm"
  /\ kind = "remote"
  /\ sources # <<>>
  /\ infile # None
  /\ IF infile[1] = 0
       THEN infile' = None /\ files' = [files EXCEPT !.stdin = TRUE]
       ELSE infile' = Some(infile[1] - 1) /\ UNCHANGED files
  /\ pc' = "commrd"
  /\ UNCHANGED << commI, sources, coll, now, procVars, returncode, timedOut,
                  chan, closeLog, supVars, argVars, iterVars, endVars,
                  fixedVars, poolVars, plan >>

RemoveAt(s, i) == SubSeq(s, 1, i - 1) \o SubSeq(s, i + 1, Len(s))

\* ParamikoPopen.communicate, the output half: i = (i + 1) % len(sources),
\* a blocking readline, and the source dropped at end of stream
CommRead ==
  /\ pc = "commrd" \/ (pc = "comm" /\ infile = None)
  /\ kind = "remote"
  /\ sources # <<>>
  /\ LET i == (commI + 1) % Len(sources)
         t == sources[i + 1]
     IN /\ pipe[t] # <<>> \/ AtEof(t)
        /\ commI' = i
        /\ IF pipe[t] # <<>>
             THEN /\ coll' = [coll EXCEPT ![t] = Append(@, Head(pipe[t]))]
                  /\ pipe' = [pipe EXCEPT ![t] = Tail(@)]
                  /\ UNCHANGED sources
             ELSE /\ sources' = RemoveAt(sources, i + 1)
                  /\ UNCHANGED << coll, pipe >>
  /\ pc' = "comm"
  /\ UNCHANGED << infile, now, alive, exitStatus, wrote, arrival, handleVars,
                  supVars, argVars, iterVars, endVars, fixedVars, poolVars, plan >>

\* ParamikoPopen.communicate after the loop: self.wait() up to
\* recv_exit_status, or past it when returncode is already there
CommDone ==
  /\ pc \in {"comm", "commrd"}
  /\ kind = "remote"
  /\ sources = <<>>
  /\ IF returncode # None THEN pc' = "check"
     ELSE ~alive /\ pc' = "wait"
  /\ UNCHANGED << now, procVars, handleVars, supVars, argVars, commVars,
                  iterVars, endVars, fixedVars, poolVars, plan >>

\* a wait that reads channel.exit_status without waiting for it to be
\* received, and so stores the channel's placeholder
CallerWait_unready ==
  /\ pc = "wait"
  /\ returncode' = Some(-1)
  /\ chan' = close(chan).chan
  /\ closeLog' = Append(closeLog, close(chan))
  /\ pc' = "check"
  /\ UNCHANGED << now, procVars, timedOut, files, supVars, argVars, commVars,
                  iterVars, endVars, fixedVars, poolVars, plan >>
\* a wait that takes the exit status and leaves the channel open
CallerWait_noClose ==
  /\ pc = "wait"
  /\ returncode' = exitStatus
  /\ pc' = "check"
  /\ UNCHANGED << now, procVars, timedOut, chan, closeLog, files, supVars,
                  argVars, commVars, iterVars, endVars, fixedVars, poolVars, plan >>
\* ParamikoPopen.wait: returncode = channel.exit_status; close()
CallerWait ==
  /\ pc = "wait"
  /\ returncode' = exitStatus
  /\ chan' = close(chan).chan
  /\ closeLog' = Append(closeLog, close(chan))
  /\ pc' = "check"
  /\ UNCHANGED << now, procVars, timedOut, files, supVars, argVars, commVars,
                  iterVars, endVars, fixedVars, poolVars, plan >>

\* Popen.communicate drains a stream
LocalRead(t) ==
  /\ pc = "comm"
  /\ kind = "local"
  /\ pipe[t] # <<>>
  /\ coll' = [coll EXCEPT ![t] = Append(@, Head(pipe[t]))]
  /\ pipe' = [pipe EXCEPT ![t] = Tail(@)]
  /\ UNCHANGED << infile, commI, sources, now, alive, exitStatus, wrote,
                  arrival, handleVars, supVars, pc, argVars, iterVars, endVars,
                  fixedVars, poolVars, plan >>

\* Popen.communicate returns: both streams at end of stream, the process reaped
LocalCommDone ==
  /\ pc = "comm"
  /\ kind = "local"
  /\ \A t \in Streams : AtEof(t)
  /\ returncode' = IF returncode = None THEN exitStatus ELSE returncode
  /\ pc' = "check"
  /\ UNCHANGED << now, procVars, timedOut, chan, files, closeLog, supVars,
                  argVars, commVars, iterVars, endVars, fixedVars, poolVars, plan >>

\* run_proc: return _check_process(proc, retcode, timeout, stdout, stderr)
RunCheck(e) ==
  /\ pc = "check"
  /\ retcode' = e
  /\ LET r == check_process(timedOut, e, returncode, coll[0], coll[1])
     IN /\ outcome' = r.outcome
        /\ result' = r.result
        /\ hooks' = Append(hooks, r.hook)
  /\ pc' = "done"
  /\ UNCHANGED << now, procVars, handleVars, supVars, mode, timeout,
                  lineTimeout, closeOnAbort, commVars, iterVars, fixedVars, poolVars, plan >>

(* ----------------------------- iter_lines ----------------------------- *)
\* a record that carries the line in both slots
MkRecord_both(t, line) == [i \in Streams |-> Some(line)]
\* ret = [None, None]; ret[t] = line
MkRecord(t, line) == [i \in Streams |-> IF i = t THEN Some(line) ELSE None]

\* a truncation that replaces one entry by the marker: buff[:1] = [marker]
BuffAppend_keepOld(buff, line) ==
  LET b == Append(buff, line)
  IN IF Len(b) > BufCap THEN <<ElisionMarker>> \o SubSeq(b, 2, Len(b)) ELSE b
\* buff.append(line); if len(buff) > 100: buff[:2] = [marker]
BuffAppend(buff, line) ==
  LET b == Append(buff, line)
  IN IF Len(b) > BufCap THEN <<ElisionMarker>> \o SubSeq(b, 3, Len(b)) ELSE b

\* sel.register(proc.stdout, EVENT_READ, 0); sel.register(proc.stderr, EVENT_READ, 1)
selData(t) == t

\* `if not ready and line_timeout`: the expired wait raises
raisesOnExpiry(lt) == lt # None /\ lt[1] # 0

\* the streams a local select() reports: data to read, or end of stream
ReadySet == {t \in Streams : pipe[t] # <<>> \/ ~alive}

\* the remote channel is readable: data on either stream, or closed
ChanReady == pipe[0] # <<>> \/ pipe[1] # <<>> \/ ~alive \/ chan.closed

Ready == IF kind = "local" THEN ReadySet # {} ELSE ChanReady

\* the orders a selector may report the ready streams in
Orders(S) ==
  IF S = {} THEN {<<>>}
  ELSE IF Cardinality(S) = 1 THEN {<<CHOOSE t \in S : TRUE>>}
  ELSE {<<0, 1>>, <<1, 0>>}

\* the body of the for loop of iter_lines for (tag, line) read from stream t
Emit(t, tag, line) ==
  /\ buffers' = [buffers EXCEPT ![tag] = BuffAppend(@, line)]
  /\ yielded' = Append(yielded, [src |-> t, rec |-> MkRecord(tag, line)])
  /\ atYield' = TRUE

\* ParamikoPopen.iter_lines refuses a timeout; else iter_lines(...) makes the
\* generator, which runs nothing until it is first pulled
CallIter(t, lt) ==
  /\ pc = "init"
  /\ mode' = "iter"
  /\ timeout' = t
  /\ lineTimeout' = lt
  /\ IF kind = "remote" /\ t # None
       THEN outcome' = "NotImplementedError" /\ pc' = "done"
       ELSE pc' = "new" /\ UNCHANGED outcome
  /\ UNCHANGED << retcode, closeOnAbort, result, hooks, now, procVars,
                  handleVars, supVars, commVars, iterVars, fixedVars, poolVars, plan >>

\* the first pull: _register_proc_timeout, buffers = [[], []], the selector
IterStart ==
  /\ pc = "new"
  /\ queue' = register(queue, timeout)
  /\ buffers' = [t \in Streams |-> <<>>]
  /\ selStart' = now
  /\ pc' = "sel"
  /\ UNCHANGED << waiting, shuttingDown, supPc, supNow, now, procVars,
                  handleVars, argVars, commVars, yielded, readyList, lastWait,
                  atYield, endVars, fixedVars, poolVars, plan >>

\* the generator is dropped before its first pull: none of its code runs
AbandonNew ==
  /\ pc = "new"
  /\ outcome' = "abandoned"
  /\ pc' = "done"
  /\ UNCHANGED << result, hooks, now, procVars, handleVars, supVars, argVars,
                  commVars, iterVars, fixedVars, poolVars, plan >>

\* select() returns with something ready
SelectReady ==
  /\ pc = "sel"
  /\ Ready
  /\ lastWait' = "ready"
  /\ selStart' = 0
  /\ IF kind = "local"
       THEN readyList' \in Orders(ReadySet) /\ pc' = "rd"
       ELSE UNCHANGED readyList /\ pc' = "r_1"
  /\ UNCHANGED << buffers, yielded, atYield, now, procVars,
                  handleVars, supVars, argVars, commVars, endVars, fixedVars, poolVars, plan >>

\* an expiry whose exception the generator answers with _abort_process
SelectExpire_abort ==
  /\ pc = "sel"
  /\ ~Ready
  /\ lineTimeout # None
  /\ now >= selStart + lineTimeout[1]
  /\ lastWait' = "expired"
  /\ IF raisesOnExpiry(lineTimeout)
       THEN /\ outcome' = "ProcessLineTimedOut"
            /\ pc' = "done"
            /\ selStart' = 0
            /\ IF hasClose
                 THEN /\ chan' = close(chan).chan
                      /\ closeLog' = Append(closeLog, close(chan))
                 ELSE UNCHANGED << chan, closeLog >>
            /\ files' = [stdin |-> TRUE, stdout |-> TRUE, stderr |-> TRUE]
            /\ hooks' = Append(hooks, "on_abort")
       ELSE /\ selStart' = now
            /\ UNCHANGED << outcome, pc, chan, closeLog, files, hooks >>
  /\ UNCHANGED << buffers, yielded, readyList, atYield, result, now,
                  procVars, returncode, timedOut, supVars, argVars, commVars,
                  fixedVars, poolVars, plan >>
\* select(line_timeout) returns with nothing ready
SelectExpire ==
  /\ pc = "sel"
  /\ ~Ready
  /\ lineTimeout # None
  /\ now >= selStart + lineTimeout[1]
  /\ lastWait' = "expired"
  /\ IF raisesOnExpiry(lineTimeout)
       THEN /\ outcome' = "ProcessLineTimedOut"
            /\ pc' = "done"
            /\ selStart' = 0
       ELSE /\ selStart' = now
            /\ UNCHANGED << outcome, pc >>
  /\ UNCHANGED << buffers, yielded, readyList, atYield, result, hooks, now,
                  procVars, handleVars, supVars, argVars, commVars, fixedVars, poolVars, plan >>

\* local: yield key.data, decode(key.fileobj.readline(linesize))
IterRead ==
  /\ pc = "rd"
  /\ LET t == Head(readyList)
     IN IF pipe[t] # <<>>
          THEN /\ Emit(t, selData(t), Head(pipe[t]))
               /\ pipe' = [pipe EXCEPT ![t] = Tail(@)]
          ELSE /\ Emit(t, selData(t), EmptyLine)
               /\ UNCHANGED pipe
  /\ readyList' = Tail(readyList)
  /\ pc' = "poll"
  /\ UNCHANGED << selStart, lastWait, now, alive, exitStatus, wrote, arrival,
                  handleVars, supVars, argVars, commVars, endVars, fixedVars, poolVars, plan >>

\* a loop that breaks after the first record without asking poll
IterPoll_always ==
  /\ pc = "poll"
  /\ atYield' = FALSE
  /\ pc' = "d_out"
  /\ UNCHANGED << selStart, returncode, buffers, yielded, readyList, lastWait,
                  now, procVars, timedOut, chan, files, closeLog, supVars,
                  argVars, commVars, endVars, fixedVars, poolVars, plan >>
\* local: if proc.poll() is not None: break
IterPoll ==
  /\ pc = "poll"
  /\ atYield' = FALSE
  /\ IF ~alive
       THEN /\ returncode' = IF returncode = None THEN exitStatus ELSE returncode
            /\ pc' = "d_out"
            /\ UNCHANGED selStart
       ELSE /\ UNCHANGED returncode
            /\ IF readyList # <<>> THEN pc' = "rd" /\ UNCHANGED selStart
               ELSE pc' = "sel" /\ selStart' = now
  /\ UNCHANGED << buffers, yielded, readyList, lastWait, now, procVars,
                  timedOut, chan, files, closeLog, supVars, argVars, commVars,
                  endVars, fixedVars, poolVars, plan >>

\* a loop body that asks stderr before stdout
recvOrder_errFirst == <<1, 0>>
\* remote: the order the loop body asks the streams in: recv_ready() with
\* stdout, then recv_stderr_ready() with stderr
recvOrder == <<0, 1>>

\* remote: if recv_ready(): yield 0, decode(six.b(proc.stdout.readline(linesize)))
RFirst ==
  /\ pc = "r_1"
  /\ LET t == recvOrder[1]
     IN IF pipe[t] # <<>>
          THEN /\ Emit(t, t, Head(pipe[t]))
               /\ pipe' = [pipe EXCEPT ![t] = Tail(@)]
          ELSE UNCHANGED << buffers, yielded, pipe >> /\ atYield' = FALSE
  /\ pc' = "r_2"
  /\ UNCHANGED << readyList, selStart, lastWait, now, alive, exitStatus, wrote,
                  arrival, handleVars, supVars, argVars, commVars, endVars,
                  fixedVars, poolVars, plan >>

\* remote: if recv_stderr_ready(): yield 1, decode(six.b(proc.stderr.readline(linesize)))
RSecond ==
  /\ pc = "r_2"
  /\ LET t == recvOrder[2]
     IN IF pipe[t] # <<>>
          THEN /\ Emit(t, t, Head(pipe[t]))
               /\ pipe' = [pipe EXCEPT ![t] = Tail(@)]
          ELSE UNCHANGED << buffers, yielded, pipe >> /\ atYield' = FALSE
  /\ pc' = "r_poll"
  /\ UNCHANGED << readyList, selStart, lastWait, now, alive, exitStatus, wrote,
                  arrival, handleVars, supVars, argVars, commVars, endVars,
                  fixedVars, poolVars, plan >>

\* remote: if proc.poll() is not None: break; poll runs wait, and wait close
RPoll ==
  /\ pc = "r_poll"
  /\ atYield' = FALSE
  /\ IF returncode # None
       THEN pc' = "d_out" /\ UNCHANGED << returncode, chan, closeLog, selStart >>
       ELSE IF ~alive
         THEN /\ returncode' = exitStatus
              /\ chan' = close(chan).chan
              /\ closeLog' = Append(closeLog, close(chan))
              /\ pc' = "d_out"
              /\ UNCHANGED selStart
         ELSE /\ pc' = "sel"
              /\ selStart' = now
              /\ UNCHANGED << returncode, chan, closeLog >>
  /\ UNCHANGED << buffers, yielded, readyList, lastWait, now, procVars,
                  timedOut, files, supVars, argVars, commVars, endVars,
                  fixedVars, poolVars, plan >>

\* for line in proc.stdout: yield 0, decode(line)
DrainOut ==
  /\ pc = "d_out"
  /\ IF pipe[0] # <<>>
       THEN /\ Emit(0, 0, Head(pipe[0]))
            /\ pipe' = [pipe EXCEPT ![0] = Tail(@)]
            /\ UNCHANGED pc
       ELSE /\ UNCHANGED << buffers, yielded, pipe >>
            /\ atYield' = FALSE
            /\ pc' = "d_err"
  /\ UNCHANGED << readyList, selStart, lastWait, now, alive, exitStatus, wrote,
                  arrival, handleVars, supVars, argVars, commVars, endVars,
                  fixedVars, poolVars, plan >>

\* for line in proc.stderr: yield 1, decode(line)
DrainErr ==
  /\ pc = "d_err"
  /\ IF pipe[1] # <<>>
       THEN /\ Emit(1, 1, Head(pipe[1]))
            /\ pipe' = [pipe EXCEPT ![1] = Tail(@)]
            /\ UNCHANGED pc
       ELSE /\ UNCHANGED << buffers, yielded, pipe >>
            /\ atYield' = FALSE
            /\ pc' = "fin"
  /\ UNCHANGED << readyList, selStart, lastWait, now, alive, exitStatus, wrote,
                  arrival, handleVars, supVars, argVars, commVars, endVars,
                  fixedVars, poolVars, plan >>

\* iter_lines after the loop: the buffers joined, then _check_process
IterCheck(e) ==
  /\ pc = "fin"
  /\ retcode' = e
  /\ LET r == check_process(timedOut, e, returncode, buffers[0], buffers[1])
     IN /\ outcome' = r.outcome
        /\ result' = r.result
        /\ hooks' = Append(hooks, r.hook)
  /\ pc' = "done"
  /\ UNCHANGED << now, procVars, handleVars, supVars, mode, timeout,
                  lineTimeout, closeOnAbort, commVars, iterVars, fixedVars, poolVars, plan >>

\* an abort that leaves the handle's stdin open
abort_process_keepStdin ==
  /\ IF hasClose
       THEN chan' = close(chan).chan /\ closeLog' = Append(closeLog, close(chan))
       ELSE UNCHANGED << chan, closeLog >>
  /\ files' = [stdin |-> files.stdin, stdout |-> TRUE, stderr |-> TRUE]
  /\ hooks' = Append(hooks, "on_abort")
\* _abort_process: close() when the handle has one, the three files closed,
\* on_abort
abort_process ==
  /\ IF hasClose
       THEN chan' = close(chan).chan /\ closeLog' = Append(closeLog, close(chan))
       ELSE UNCHANGED << chan, closeLog >>
  /\ files' = [stdin |-> TRUE, stdout |-> TRUE, stderr |-> TRUE]
  /\ hooks' = Append(hooks, "on_abort")

\* the consumer drops the generator suspended at its yield: GeneratorExit,
\* _abort_process when close_on_abort, and the exception again
Abandon(c) ==
  /\ atYield
  /\ pc # "done"
  /\ closeOnAbort' = c
  /\ IF c THEN abort_process ELSE UNCHANGED << chan, closeLog, files, hooks >>
  /\ outcome' = "abandoned"
  /\ atYield' = FALSE
  /\ pc' = "done"
  /\ UNCHANGED << result, mode, retcode, timeout, lineTimeout, now, procVars,
                  returncode, timedOut, supVars, commVars, buffers, yielded,
                  readyList, selStart, lastWait, fixedVars, poolVars, plan >>

Next ==
  \/ \E t \in Streams : ProcWrite(t)
  \/ \E c \in ExitCodes : ProcExit(c)
  \/ Tick
  \/ SupGetItem
  \/ SupGetEmpty
  \/ SupSweep
  \/ SupWait
  \/ SupKill
  \/ SupMark
  \/ \E t \in Timeouts, inf \in {None, Some(1)} : CallRun(t, inf)
  \/ CommIn
  \/ CommRead
  \/ CommDone
  \/ CallerWait
  \/ \E t \in Streams : LocalRead(t)
  \/ LocalCommDone
  \/ \E e \in ExpectedSpecs : RunCheck(e)
  \/ \E t \in Timeouts, lt \in LineTimeouts : CallIter(t, lt)
  \/ IterStart
  \/ AbandonNew
  \/ SelectReady
  \/ SelectExpire
  \/ IterRead
  \/ IterPoll
  \/ RFirst
  \/ RSecond
  \/ RPoll
  \/ DrainOut
  \/ DrainErr
  \/ \E e \in ExpectedSpecs : IterCheck(e)
  \/ \E c \in BOOLEAN : Abandon(c)

Spec == Init /\ [][Next]_vars

\* the threads are scheduled and the clock runs; the process owes nothing
Sup == SupGetItem \/ SupGetEmpty \/ SupSweep \/ SupWait \/ SupKill \/ SupMark
RunSteps ==
  \/ CommIn
  \/ CommRead
  \/ CommDone
  \/ CallerWait
  \/ \E t \in Streams : LocalRead(t)
  \/ LocalCommDone
  \/ \E e \in ExpectedSpecs : RunCheck(e)
FairSpec == Spec /\ WF_vars(Sup) /\ WF_vars(RunSteps) /\ WF_vars(Tick)

\* the accumulator alone: line after line is yielded from either stream
InitAcc ==
  /\ Init
  /\ kind = "local"
AccYield(t) ==
  /\ wrote[t] < MaxChatty
  /\ wrote' = [wrote EXCEPT ![t] = @ + 1]
  /\ buffers' = [buffers EXCEPT ![t] = BuffAppend(@, wrote[t] + 1)]
  /\ UNCHANGED << now, alive, exitStatus, arrival, pipe, handleVars, supVars,
                  pc, argVars, commVars, yielded, readyList, selStart,
                  lastWait, atYield, endVars, fixedVars, poolVars, plan >>
NextAcc == \E t \in Streams : AccYield(t)
SpecAcc == InitAcc /\ [][NextAcc]_vars

\* the same with the interpreter's exit
NextExit == Next \/ Shutdown \/ SupStop
SpecExit == Init /\ [][NextExit]_vars

\* the timeout thread serving the pool, with teardown at any time
NextSup ==
  \/ \E h \in Handles, t \in Timeouts : RegisterDeadline(h, t)
  \/ \E h \in Handles : PoolExit(h)
  \/ Tick
  \/ PoolGetItem
  \/ SupGetEmpty
  \/ PoolSweep
  \/ PoolKill
  \/ PoolMark
  \/ Shutdown
  \/ SupStop
InitSup ==
  /\ Init
  /\ kind = "local"
SpecSup == InitSup /\ [][NextSup]_vars

\* a process that writes the lines of its plan, in order, and then exits;
\* a write waits while the stream's transport is full
Plans ==
  UNION { [1..n -> Streams] : n \in 0..MaxPlan }
ProgWrite ==
  /\ alive
  /\ plan # <<>>
  /\ ~chan.closed
  /\ LET t == Head(plan)
     IN /\ Len(pipe[t]) < PipeCap
        /\ wrote' = [wrote EXCEPT ![t] = @ + 1]
        /\ pipe' = [pipe EXCEPT ![t] = Append(@, wrote[t] + 1)]
        /\ arrival' = Append(arrival, t)
  /\ plan' = Tail(plan)
  /\ UNCHANGED << alive, exitStatus, now, handleVars, supVars, pc, argVars,
                  commVars, iterVars, endVars, fixedVars, poolVars >>
ProgExit(c) ==
  /\ alive
  /\ plan = <<>>
  /\ alive' = FALSE
  /\ exitStatus' = Some(c)
  /\ UNCHANGED << wrote, arrival, pipe, now, handleVars, supVars, pc, argVars,
                  commVars, iterVars, endVars, fixedVars, poolVars, plan >>

\* run_proc without a timeout on the remote handle of such a process
CommSteps ==
  \/ CommIn
  \/ CommRead
  \/ CommDone
  \/ CallerWait
  \/ \E e \in ExpectedSpecs : RunCheck(e)
NextComm ==
  \/ ProgWrite
  \/ \E c \in ExitCodes : ProgExit(c)
  \/ \E inf \in {None, Some(1)} : CallRun(None, inf)
  \/ CommSteps
InitComm ==
  /\ InitHandle
  /\ InitPool
  /\ kind = "remote"
  /\ plan \in Plans
FairComm ==
  /\ InitComm
  /\ [][NextComm]_vars
  /\ WF_vars(ProgWrite)
  /\ WF_vars(\E c \in ExitCodes : ProgExit(c))
  /\ WF_vars(CommSteps)

\* a process that writes and exits only once its stdin is at end of input,
\* fed by communicate from stdin_file
Inputs == { Some(k) : k \in 0..MaxInput }
FeedWrite ==
  /\ files.stdin
  /\ ProgWrite
FeedExit(c) ==
  /\ files.stdin
  /\ ProgExit(c)
NextFeed ==
  \/ FeedWrite
  \/ \E c \in ExitCodes : FeedExit(c)
  \/ \E inf \in Inputs : CallRun(None, inf)
  \/ CommSteps
FairFeed ==
  /\ InitComm
  /\ [][NextFeed]_vars
  /\ WF_vars(FeedWrite)
  /\ WF_vars(\E c \in ExitCodes : FeedExit(c))
  /\ WF_vars(CommSteps)

(* ------------------------------ claims -------------------------------- *)
Classified == outcome \in {"ok", "ProcessExecutionError", "ProcessTimedOut"}
Codes(e) == IF e.tag = "value" THEN {e.val} ELSE e.set
AllClosed == files.stdin /\ files.stdout /\ files.stderr
\* yielded[i] carries a line the process wrote (not an end-of-stream read)
RealLine(i) == yielded[i].rec[yielded[i].src] # Some(EmptyLine)
LineOf(i) == yielded[i].rec[yielded[i].src][1]
\* where in the order of writing the k-th line of stream t stands
ArrivalPos(t, k) ==
  CHOOSE i \in 1..Len(arrival) :
    arrival[i] = t /\ Cardinality({j \in 1..i : arrival[j] = t}) = k

\* C1: with the timed-out flag unset the classifier, from run or from an
\* exhausted iter_lines, succeeds with (returncode, stdout, stderr) exactly
\* when retcode is absent or holds the exit code, and else fails with
\* ProcessExecutionError carrying the exit code.
C1_ClassifierIff ==
  [][ (pc \in {"check", "fin"} /\ pc' = "done" /\ ~timedOut) =>
        LET out == IF pc = "check" THEN coll[0] ELSE buffers[0]
            err == IF pc = "check" THEN coll[1] ELSE buffers[1]
        IN IF retcode'.tag = "absent"
              \/ (returncode # None /\ returncode[1] \in Codes(retcode'))
             THEN outcome' = "ok" /\ result' = Some(<<returncode, out, err>>)
             ELSE /\ outcome' = "ProcessExecutionError"
                  /\ result' # None
                  /\ result'[1][1] = returncode ]_vars
C1_Witness ==
  /\ pc = "done"
  /\ outcome = "ProcessExecutionError"
  /\ ~timedOut
  /\ retcode.tag = "set"
  /\ returncode = Some(0)

\* C2: a process the timeout thread killed is classified as ProcessTimedOut,
\* never as a success or an exit-code mismatch: the flag is set before the
\* classification runs.
C2_KilledReportsTimeout ==
  (Classified /\ exitStatus = Some(SigKillCode)) => outcome = "ProcessTimedOut"

\* C3: once the deadline of a run has passed with the process still running,
\* the process is eventually ended and run raises ProcessTimedOut (unless the
\* process ends by itself after all).
DeadlineDue ==
  \/ \E i \in DOMAIN queue : queue[i][1] = H /\ queue[i][2] <= now
  \/ \E i \in DOMAIN waiting : waiting[i][2] = H /\ waiting[i][1] <= now
C3_TimeoutEndsRun ==
  (mode = "run" /\ alive /\ DeadlineDue)
    ~> \/ pc = "done" /\ outcome = "ProcessTimedOut" /\ ~alive
       \/ ~alive /\ exitStatus # Some(SigKillCode)

\* C4: with a line timeout given (0 included), a wait that expires with
\* nothing ready makes the iterator fail with ProcessLineTimedOut there.
C4_ExpiredWaitRaises == lastWait = "expired" => outcome = "ProcessLineTimedOut"

\* C5 as stated: an abandoned iteration has invoked the handle's close, and
\* with close_on_abort has closed stdin, stdout and stderr as well.
C5_AbandonCloses ==
  outcome = "abandoned" => closeLog # <<>> /\ (closeOnAbort => AllClosed)
\* C5 as amended: abandoning a generator suspended at its yield runs, when
\* close_on_abort holds, the handle's close if it has one and closes the
\* three files, so that no channel of the handle stays open; when it does
\* not hold, nothing of the handle is touched.
C5_AbortCloses ==
  [][ (atYield /\ outcome = "none" /\ outcome' = "abandoned") =>
        IF closeOnAbort'
          THEN /\ AllClosed'
               /\ hooks' = Append(hooks, "on_abort")
               /\ IF hasClose
                    THEN Len(closeLog') = Len(closeLog) + 1 /\ chan'.closed
                    ELSE UNCHANGED << chan, closeLog >>
          ELSE UNCHANGED << chan, files, closeLog, hooks >> ]_vars
C5_Witness ==
  /\ outcome = "abandoned"
  /\ closeOnAbort
  /\ kind = "remote"
  /\ Len(yielded) = 1
  /\ AllClosed
  /\ chan.closed
  /\ Len(closeLog) = 1

\* C6: every record yielded has exactly one slot filled: slot 0 for a line of
\* stdout, slot 1 for a line of stderr.
C6_OneSlot ==
  \A i \in DOMAIN yielded :
    /\ yielded[i].rec[yielded[i].src] # None
    /\ yielded[i].rec[1 - yielded[i].src] = None
C6_Witness ==
  /\ \E i \in DOMAIN yielded : yielded[i].src = 0 /\ yielded[i].rec[0] # None
  /\ \E i \in DOMAIN yielded : yielded[i].src = 1 /\ yielded[i].rec[1] # None
  /\ pc = "done"
  /\ Classified

\* C7: after n lines of one stream the accumulator holds at most 100
\* entries: the n lines in order while n <= 100, and beyond that the marker
\* followed by the latest 99 lines in order.
C7_Accumulator ==
  \A t \in Streams :
    LET n == wrote[t] IN
    /\ Len(buffers[t]) <= BufCap
    /\ n <= BufCap => buffers[t] = [i \in 1..n |-> i]
    /\ n > BufCap =>
         buffers[t] = <<ElisionMarker>> \o [i \in 1..(BufCap - 1) |-> n - (BufCap - 1) + i]
C7_Witness ==
  /\ wrote[0] = BufCap + 2
  /\ buffers[0][1] = ElisionMarker
  /\ buffers[0][2] = 4
  /\ Len(buffers[0]) = BufCap

Finished ==
  \/ Classified
  \/ outcome = "abandoned" /\ closeOnAbort /\ yielded # <<>>
C11_ReturncodeOnce ==
  [][ /\ returncode # None => returncode' = returncode
      /\ returncode' # None => returncode' = exitStatus' ]_vars
C11_Witness ==
  /\ kind = "remote"
  /\ returncode = Some(2)
  /\ Len(closeLog) = 2
  /\ timeout # None
  /\ pc = "done"

\* C12: the timeout thread's queue and heap together hold at most one entry
\* for any handle.
EntriesOf(h) ==
  Cardinality({i \in DOMAIN queue : queue[i] # Sentinel /\ queue[i][1] = h})
    + Cardinality({i \in DOMAIN waiting : waiting[i][2] = h})
C12_OneEntryPerHandle == \A h \in Handles : EntriesOf(h) <= 1

\* C13: a kill that the remote handle refuses is not a silent no-op for the
\* timeout thread that asked for it: the step leaves a trace on the handle,
\* on the process or on the caller's outcome, or ends the thread.
C13_KillSurfaced ==
  [][ (supPc = "kill" /\ killRaises /\ supPc' # "kill") =>
        ~(supPc' = "sweep" /\ UNCHANGED << procVars, handleVars, endVars >>) ]_vars

\* C14: communicate on the remote handle returns for every process that
\* writes its output and exits, however the output is spread over stdout
\* and stderr.
C14_CommunicateReturns == (mode = "run") ~> (pc \in {"check", "done"})

\* C15: a registration with no timeout leaves the queue and the heap as they
\* are; with a timeout, 0 included, it puts exactly one entry, whose deadline
\* is the time of registration plus the timeout.
C15_RegisterFrame ==
  [][ ((pc = "init" /\ mode' = "run") \/ (pc = "new" /\ pc' = "sel")) =>
        /\ waiting' = waiting
        /\ IF timeout' = None
             THEN queue' = queue
             ELSE queue' = Append(queue, <<H, now + timeout'[1]>>) ]_vars
C15_Witness ==
  /\ timeout = Some(0)
  /\ queue = << <<H, 1>> >>
  /\ waiting = <<>>
  /\ mode = "iter"

\* C16: teardown sets the flag and puts the sentinel in one go, whatever the
\* timeout thread is doing; the thread ends on taking the sentinel, and once
\* ended it pops no entry, signals no process and sets no _timed_out.
C16_TeardownStops ==
  [][ /\ (~shuttingDown /\ shuttingDown') =>
           /\ queue' = Append(queue, Sentinel)
           /\ UNCHANGED << supPc, waiting, procs >>
      /\ (queue # <<>> /\ Head(queue) = Sentinel /\ queue' = Tail(queue)) =>
           supPc' = "exited"
      /\ supPc = "exited" =>
           /\ supPc' = "exited"
           /\ UNCHANGED << waiting, fired >>
           /\ \A h \in Handles :
                /\ procs'[h].timedOut = procs[h].timedOut
                /\ procs'[h].signalled = procs[h].signalled ]_vars
C16_Witness ==
  /\ supPc = "exited"
  /\ shuttingDown
  /\ waiting # <<>>
  /\ peek(waiting)[1] <= now
  /\ procs[peek(waiting)[2]].alive
  /\ queue # <<>>

\* C17: a process that ended by itself, also one that ended between the
\* timeout thread's poll and its kill, is classified by its exit code and
\* not as ProcessTimedOut.
C17_SelfExitByCode ==
  (Classified /\ exitStatus # None /\ exitStatus # Some(SigKillCode))
    => outcome # "ProcessTimedOut"

\* C18: the timeout thread moves on to kill only from popping an entry whose
\* deadline has passed and whose process poll finds running; an entry whose
\* process has ended is popped with no kill and _timed_out as it was; the
\* flag is set and the process signalled by the thread alone.
C18_KillOnlyDueRunning ==
  [][ /\ (supPc # "kill" /\ supPc' = "kill") =>
           /\ waiting # <<>>
           /\ peek(waiting)[1] <= now
           /\ alive
           /\ waiting' = pop(waiting)
      /\ (Len(waiting') < Len(waiting) /\ ~alive) =>
           /\ supPc' \in {"sweep", "wait"}
           /\ UNCHANGED << timedOut, alive, exitStatus >>
      /\ (timedOut' /\ ~timedOut) => supPc = "mark"
      /\ (alive /\ exitStatus' = Some(SigKillCode)) => supPc = "kill" ]_vars
C18_Witness ==
  /\ kind = "local"
  /\ timeout # None
  /\ pc = "comm"
  /\ ~alive
  /\ returncode = Some(0)
  /\ ~timedOut
  /\ queue = <<>>
  /\ waiting = <<>>
  /\ supPc = "sweep"

\* C19: entries are popped in non-decreasing order of deadline, entries of
\* equal deadline in the order they were registered in, and the thread is
\* not ended by it.
RegPos(e) ==
  CHOOSE i \in DOMAIN registered :
    /\ registered[i] = <<e.proc, e.ttk>>
    /\ \A j \in 1..(i - 1) : registered[j] # <<e.proc, e.ttk>>
C19_DeadlineOrder ==
  /\ supPc # "crashed"
  /\ \A i, j \in DOMAIN fired :
       i < j => /\ fired[i].ttk <= fired[j].ttk
                /\ fired[i].ttk = fired[j].ttk
                     => RegPos(fired[i]) <= RegPos(fired[j])

\* C20: after a kill that raised, every entry popped later whose process is
\* still running when its kill is tried ends up killed and marked
\* _timed_out.
Dealt(j) == j < Len(fired) \/ supPc \notin {"kill", "mark"}
C20_OthersStillKilled ==
  \A i, j \in DOMAIN fired :
    ( /\ i < j
      /\ fired[i].kill \in {"raised", "raised late"}
      /\ fired[j].kill \in {"raised", "done"}
      /\ Dealt(j) )
      => /\ ~procs[fired[j].proc].alive
         /\ procs[fired[j].proc].timedOut

\* C21: every registration is with the timeout thread exactly once: each
\* (proc, deadline) registered so far is, as many times as it was
\* registered, either still in the queue, or in the heap, or popped from
\* the heap by the thread; none is lost and none is there twice.
QueueRegs == SelectSeq(queue, LAMBDA m : m # Sentinel)
Count(s, x) == Cardinality({i \in DOMAIN s : s[i] = x})
Popped == [i \in DOMAIN fired |-> <<fired[i].proc, fired[i].ttk>>]
Heaped == [i \in DOMAIN waiting |-> <<waiting[i][2], waiting[i][1]>>]
C22_LineTimeoutFrame ==
  [][ (outcome # "ProcessLineTimedOut" /\ outcome' = "ProcessLineTimedOut") =>
        UNCHANGED << procVars, handleVars, hooks, result >> ]_vars
C22_Witness ==
  /\ outcome = "ProcessLineTimedOut"
  /\ yielded # <<>>
  /\ alive
  /\ returncode = None
  /\ ~chan.closed
  /\ ~AllClosed
  /\ hooks = <<>>

\* C23: the classifier of an exhausted iter_lines runs once, with returncode
\* present, the process ended and every line read and yielded; once it has
\* run, no record is yielded and no hook invoked.
Verdicts == {i \in DOMAIN hooks : hooks[i] \in {"on_done", "on_fail"}}
C23_ClassifyAtExhaustion ==
  [][ /\ (pc = "fin" /\ pc' = "done") =>
           /\ returncode # None
           /\ ~alive
           /\ pipe[0] = <<>> /\ pipe[1] = <<>>
           /\ Verdicts = {}
           /\ UNCHANGED << yielded, buffers >>
      /\ (mode = "iter" /\ Classified) =>
           UNCHANGED << yielded, outcome, hooks, result >> ]_vars
C23_Witness ==
  /\ mode = "iter"
  /\ outcome = "ok"
  /\ returncode = Some(0)
  /\ wrote[0] + wrote[1] = MaxLines
  /\ \E i \in DOMAIN yielded : RealLine(i)

\* C24: an iter_lines run to exhaustion has yielded, for each stream, exactly
\* the lines the process wrote to it, in order, and nothing else, and the
\* stream's accumulator holds the same.
LinesOf(t) ==
  LET recs == SelectSeq(yielded, LAMBDA r : r.src = t)
  IN [i \in 1..Len(recs) |-> recs[i].rec[t][1]]
C24_ExactLines ==
  (mode = "iter" /\ Classified) =>
    \A t \in Streams :
      /\ LinesOf(t) = [i \in 1..wrote[t] |-> i]
      /\ buffers[t] = LinesOf(t)

\* C25: communicate with an input source, on a process that writes and exits
\* only after the end of its input and whose output fits the transport:
\* the input is written out, stdin closed, both streams collected apart to
\* their end, and communicate returns with returncode set.
FitsTransport ==
  \A t \in Streams :
    Cardinality({i \in DOMAIN plan : plan[i] = t}) + Len(pipe[t]) <= PipeCap
C25_Fed ==
  /\ pc \in {"check", "done"}
  /\ returncode # None
  /\ infile = None
  /\ files.stdin
  /\ \A t \in Streams : coll[t] = [i \in 1..wrote[t] |-> i]
C25_NoStarvation == (mode = "run" /\ FitsTransport) ~> C25_Fed

\* C26: a classification invokes on_done when it succeeds and on_fail when
\* it fails (the failure being the outcome), one of them and once; an
\* abandoned iteration gives no verdict and no result and invokes at most
\* on_abort, and that only with close_on_abort.
C26_OneHook ==
  [][ /\ (pc \in {"check", "fin"} /\ pc' = "done") =>
           /\ Classified'
           /\ hooks' = Append(hooks, IF outcome' = "ok" THEN "on_done"
                                     ELSE "on_fail")
           /\ Cardinality({i \in DOMAIN hooks' :
                             hooks'[i] \in {"on_done", "on_fail"}}) = 1
      /\ (outcome # "abandoned" /\ outcome' = "abandoned") =>
           /\ result' = None
           /\ \/ hooks' = hooks
              \/ closeOnAbort' /\ hooks' = Append(hooks, "on_abort")
           /\ Verdicts = {}
      /\ outcome = "abandoned" => UNCHANGED << outcome, hooks, result >> ]_vars
C26_Witness ==
  /\ mode = "iter"
  /\ outcome = "ProcessExecutionError"
  /\ hooks = <<"on_fail">>
  /\ result # None

====
